---- MODULE Spec2Model ----
(***************************************************************************)
(* The S3 request dispatcher of s3api/controllers/base.go.                 *)
(*                                                                         *)
(* One request is handled at a time on a fresh fiber context: a handler    *)
(* reads the route parameters, the query arguments, the headers and the    *)
(* body of the request, invokes at most one operation of the backend and   *)
(* writes the response.  Strings are sequences of one-character strings,   *)
(* so that concatenation, splitting and integer parsing are computed as    *)
(* the code computes them.                                                 *)
(***************************************************************************)
EXTENDS Integers, Sequences, FiniteSets, TLC

VARIABLES
    pc,      \* "idle": waiting for a request, "done": the handler has returned
    req,     \* the request the last handler was given
    calls,   \* the backend operations invoked for req, in order, with their results
    resp,    \* the response: status, body, headers
    events,  \* what happened to the response and the backend, in program order
    ret,     \* the error value the handler returned to the router
    stderr   \* TRUE when the response writer logged an internal error

vars == <<pc, req, calls, resp, events, ret, stderr>>

-----------------------------------------------------------------------------
(* Bounds of the model *)

\* Integers rendered into numeric query arguments range over -1..MaxInt.
MaxInt == 2
\* Longest X-Amz-Copy-Source value.
MaxSrcLen == 3

-----------------------------------------------------------------------------
(* Strings and numbers *)

Strings(S, n) == UNION {[1..k -> S] : k \in 0..n}

Last(s) == s[Len(s)]

DigitVal(ch) ==
    CASE ch = "0" -> 0 [] ch = "1" -> 1 [] ch = "2" -> 2 [] ch = "3" -> 3
      [] ch = "4" -> 4 [] ch = "5" -> 5 [] ch = "6" -> 6 [] ch = "7" -> 7
      [] ch = "8" -> 8 [] ch = "9" -> 9 [] OTHER -> -1

RECURSIVE ParseDigits(_, _)
ParseDigits(s, acc) ==
    IF s = <<>> THEN acc
    ELSE IF DigitVal(Head(s)) < 0 THEN -1
    ELSE ParseDigits(Tail(s), acc * 10 + DigitVal(Head(s)))

\* strconv.Atoi / strconv.ParseInt(s, 10, 64): an optional sign, then one or
\* more decimal digits; anything else is an error.
Atoi(s) ==
    LET signed == s # <<>> /\ Head(s) \in {"+", "-"}
        digits == IF signed THEN Tail(s) ELSE s
        v      == IF digits = <<>> THEN -1 ELSE ParseDigits(digits, 0)
    IN  IF v < 0 THEN [ok |-> FALSE, val |-> 0]
        ELSE [ok |-> TRUE, val |-> IF Head(s) = "-" THEN 0 - v ELSE v]

RECURSIVE Digits(_)
Digits(n) ==
    LET d == <<"0", "1", "2", "3", "4", "5", "6", "7", "8", "9">>[(n % 10) + 1]
    IN  IF n < 10 THEN <<d>> ELSE Append(Digits(n \div 10), d)

\* fmt.Sprint of an integer.
Sprint(n) == IF n < 0 THEN <<"-">> \o Digits(0 - n) ELSE Digits(n)

\* strings.Split(s, sep) for a one-character separator.
RECURSIVE SplitFrom(_, _, _)
SplitFrom(s, sep, cur) ==
    IF s = <<>> THEN <<cur>>
    ELSE IF Head(s) = sep THEN <<cur>> \o SplitFrom(Tail(s), sep, <<>>)
    ELSE SplitFrom(Tail(s), sep, Append(cur, Head(s)))

Split(s, sep) == SplitFrom(s, sep, <<>>)

\* strings.Join(parts, sep)
RECURSIVE Join(_, _)
Join(parts, sep) ==
    IF parts = <<>> THEN <<>>
    ELSE IF Len(parts) = 1 THEN parts[1]
    ELSE parts[1] \o <<sep>> \o Join(Tail(parts), sep)

-----------------------------------------------------------------------------
(* The request *)

QueryNames == {"uploadId", "partNumber", "max-parts", "part-number-marker",
               "acl", "uploads", "list-type", "max-keys", "restore"}

GrantNames == <<"X-Amz-Grant-Full-Control", "X-Amz-Grant-Read",
                "X-Amz-Grant-Read-Acp", "X-Amz-Grant-Write",
                "X-Amz-Grant-Write-Acp">>

HeaderNames == {"X-Amz-Acl", "X-Amz-Copy-Source", "X-Amz-Object-Attributes",
                "Content-Length", "Range"}
               \cup {GrantNames[i] : i \in 1..5}

\* A query argument is absent, or present with a (possibly empty) value.
NoArg == [has |-> FALSE, val |-> <<>>]
Arg(v) == [has |-> TRUE, val |-> v]

\* ctx.Query(key): the value, "" when the argument is absent.
Query(r, key) == r.query[key].val

\* A presence test that takes an empty value for an absent argument.
HasValue(r, key) == r.query[key].val # <<>>

\* ctx.Request().URI().QueryArgs().Has(key)
Has(r, key) == r.query[key].has

\* ctx.QueryInt(key, default): the default when Atoi fails.
QueryInt(r, key, default) ==
    LET a == Atoi(Query(r, key)) IN IF a.ok THEN a.val ELSE default

\* ctx.Get(header): the value, "" when the header is absent.
Get(r, name) == r.hdr[name]

\* ctx.Params(name); the wildcard "*1" is the tail of the key.
Params(r, name) == IF name = "*1" THEN r.params.tail ELSE r.params[name]

\* ctx.Path(): /bucket[/key[/tail]], with the trailing slash the client sent.
Path(r) == r.path

\* xml.Unmarshal(ctx.Body(), &v) returns an error unless the body is a
\* well-formed document.
XMLUnmarshalFails(body) == body # "<doc/>"


-----------------------------------------------------------------------------
(* The backend and the error catalog *)

NilErr == [kind |-> "nil", code |-> ""]
OtherErr == [kind |-> "other", code |-> ""]

\* s3err.GetAPIError(code): the catalog entry, an s3err.APIError.
GetAPIError(code) == [kind |-> "api", code |-> code]

\* APIError.HTTPStatusCode of the catalog entries.
HTTPStatusCode(code) ==
    CASE code = "InvalidRequest" -> 400
      [] code = "InvalidMaxParts" -> 400
      [] code = "InvalidPartNumberMarker" -> 400
      [] code = "InvalidPart" -> 400
      [] code = "AccessDenied" -> 403
      [] code = "NoSuchBucket" -> 404
      [] code = "NoSuchKey" -> 404
      [] code = "BucketAlreadyExists" -> 409
      [] code = "InternalError" -> 500

\* s3err.GetAPIErrorResponse(err, "", "", ""): the error document of err.
GetAPIErrorResponse(err) == [kind |-> "error", of |-> err.code]

EmptyBody == [kind |-> "empty", of |-> ""]

\* What one backend operation does and returns: the error, the etag (of the
\* operations that return one), the result value ("nil" or a value) and whether
\* it wrote payload to the writer it was given.
BackendResults ==
    { [err |-> NilErr, etag |-> <<"e">>, res |-> "value", wrote |-> TRUE],
      [err |-> NilErr, etag |-> <<>>, res |-> "nil", wrote |-> FALSE],
      [err |-> GetAPIError("NoSuchKey"), etag |-> <<>>, res |-> "nil", wrote |-> FALSE],
      [err |-> GetAPIError("AccessDenied"), etag |-> <<>>, res |-> "nil", wrote |-> TRUE],
      [err |-> OtherErr, etag |-> <<>>, res |-> "nil", wrote |-> FALSE] }

\* The fields of a non-nil GetObject / HeadObject result.
ObjectResult ==
    [Metadata |-> {<<"m", <<"v">>>>}, ContentLength |-> 1,
     ContentType |-> <<"t">>, ContentEncoding |-> <<>>, ETag |-> <<"e">>,
     LastModified |-> <<>>]

-----------------------------------------------------------------------------
(* The fiber context of one request *)

\* A fresh context: status 200 until set, empty body, no header.
NewCtx ==
    [status |-> 200, body |-> EmptyBody, hdr |-> {}, events |-> <<>>,
     calls |-> <<>>, ret |-> "nil", stderr |-> FALSE]

\* A backend call that is retried once when it fails.
InvokeRetry(c, op, args, be) ==
    LET call == [op |-> op, args |-> args, result |-> be]
    IN  [c EXCEPT !.calls = IF be.err.kind # "nil" THEN @ \o <<call, call>>
                              ELSE Append(@, call),
                  !.events = IF be.err.kind # "nil"
                             THEN @ \o <<"call", "return", "call", "return">>
                             ELSE @ \o <<"call", "return">>]

\* c.be.<op>(args...): the call and its return.
Invoke(c, op, args, be) ==
    [c EXCEPT !.calls = Append(@, [op |-> op, args |-> args, result |-> be]),
              !.events = @ \o <<"call", "return">>]

\* c.be.GetObject(bucket, key, range, ctx.Response().BodyWriter()): the backend
\* writes the payload into the response body while it runs.
InvokeGetObject(c, args, be) ==
    [c EXCEPT !.calls = Append(@, [op |-> "GetObject", args |-> args, result |-> be]),
              !.body = IF be.wrote THEN [kind |-> "object", of |-> ""] ELSE @,
              !.events = @ \o (IF be.wrote THEN <<"call", "backend-write", "return">>
                               ELSE <<"call", "return">>)]

\* ctx.Status(code)
Status(c, code) == [c EXCEPT !.status = code, !.events = Append(@, "status")]

\* ctx.Send(body): replaces the body.
Send(c, body) == [c EXCEPT !.body = body, !.events = Append(@, "body")]

\* ctx.Response().Header.Set(name, value)
SetHeader(c, name, value) ==
    [c EXCEPT !.hdr = {h \in @ : h[1] # name} \cup {<<name, value>>},
              !.events = Append(@, "header")]

\* ctx.SendStatus(code): the status, and the status text when the body is empty.
SendStatus(c, code) ==
    LET s == Status(c, code)
    IN  IF s.body.kind = "empty" THEN Send(s, [kind |-> "text", of |-> "OK"]) ELSE s

\* fmt.Fprintf(os.Stderr, "Internal Error, ...")
LogInternalError(c) == [c EXCEPT !.stderr = TRUE]

\* return err, from a handler to the router
ReturnError(c, e) == [c EXCEPT !.ret = e]

\* A response writer that forgets the status of a catalog error.
SendResponseNoStatus(c, err) ==
    IF err.kind # "nil" THEN
        IF err.kind = "api" THEN Send(c, GetAPIErrorResponse(err))
        ELSE
            Send(LogInternalError(c), GetAPIErrorResponse(GetAPIError("InternalError")))
    ELSE Status(c, 200)

SendResponse(c, err) ==
    IF err.kind # "nil" THEN
        IF err.kind = "api" THEN
            Send(Status(c, HTTPStatusCode(err.code)), GetAPIErrorResponse(err))
        ELSE
            Send(LogInternalError(c), GetAPIErrorResponse(GetAPIError("InternalError")))
    ELSE Status(c, 200)

\* xml.Marshal(resp): the result values of the backend are plain structures,
\* which always marshal; a nil pointer marshals to no bytes.
XMLMarshal(res) ==
    [err |-> FALSE,
     b   |-> IF res = "nil" THEN EmptyBody ELSE [kind |-> "xml", of |-> ""]]

SendXMLResponse(c, res, err) ==
    IF err.kind # "nil" THEN
        IF err.kind = "api" THEN
            Send(Status(c, HTTPStatusCode(err.code)), GetAPIErrorResponse(err))
        ELSE
            Send(LogInternalError(c), GetAPIErrorResponse(GetAPIError("InternalError")))
    ELSE IF res # "nil" THEN
        LET m == XMLMarshal(res)
        IN  IF m.err THEN ReturnError(c, "xml: unsupported type")
            ELSE IF m.b.kind # "empty"
                 THEN Send(SetHeader(c, "Content-Type", <<"application/xml">>), m.b)
                 ELSE Send(c, m.b)
    ELSE Send(c, EmptyBody)

-----------------------------------------------------------------------------
(* The requests the router hands to the handlers *)

Bucket == <<"b">>
Access == <<"o">>

NoHeaders == [n \in HeaderNames |-> <<>>]
NoQuery == [k \in QueryNames |-> NoArg]

\* Route parameters of /:bucket/:key/*: the router matches with the trailing
\* slash of the path removed, so "key" and "*1" never end with it.
ObjectParams ==
    { [bucket |-> Bucket, key |-> <<"k">>, tail |-> t] : t \in {<<>>, <<"s">>} }

ObjectPath(p, slash) ==
    <<"/">> \o p.bucket \o <<"/">> \o p.key
        \o (IF p.tail # <<>> THEN <<"/">> \o p.tail ELSE <<>>)
        \o (IF slash THEN <<"/">> ELSE <<>>)

BucketParams == [bucket |-> Bucket, key |-> <<>>, tail |-> <<>>]

Request(handler, p, path, query, hdr, body) ==
    [handler |-> handler, params |-> p, path |-> path, query |-> query @@ NoQuery,
     hdr |-> hdr @@ NoHeaders, body |-> body, access |-> Access]

\* Values of a numeric query argument: empty, not a number, and -1..MaxInt.
NumStrings == {<<>>, <<"x">>} \cup {Sprint(n) : n \in -1..MaxInt}
NumArgs == {NoArg} \cup {Arg(v) : v \in NumStrings}

\* Values of uploadId: absent, present and empty, present with a value.
IdArgs == {NoArg, Arg(<<>>), Arg(<<"u">>)}

\* Values of a flag argument such as ?acl.
FlagArgs == {NoArg, Arg(<<>>)}

\* The five X-Amz-Grant-* headers: none, any one of them, or all five.
GrantHeaders ==
    { [i \in 1..5 |-> IF i \in G THEN <<"g">> ELSE <<>>] :
        G \in {H \in SUBSET (1..5) : Cardinality(H) \in {0, 1, 5}} }

GrantsOf(g) ==
    GrantNames[1] :> g[1] @@ GrantNames[2] :> g[2] @@ GrantNames[3] :> g[3]
        @@ GrantNames[4] :> g[4] @@ GrantNames[5] :> g[5]

CopySources == Strings({"/", "s"}, MaxSrcLen)

ContentLengths == {<<>>, <<"1", "0">>, <<"x">>}

Bodies == {"", "<doc/>", "<doc"}

-----------------------------------------------------------------------------
(* Pieces of the handlers *)

\* key := ctx.Params("key"); if keyEnd != "" { key = strings.Join({key, keyEnd}, "/") }
ObjectKey(r) ==
    IF Params(r, "*1") # <<>>
    THEN Join(<<Params(r, "key"), Params(r, "*1")>>, "/")
    ELSE Params(r, "key")

\* if path[len(path)-1:] == "/" && keyStart[len(keyStart)-1:] != "/" { keyStart += "/" }
TrailingSlash(path, keyStart) ==
    IF Last(path) = "/" /\ Last(keyStart) # "/" THEN keyStart \o <<"/">> ELSE keyStart

\* grants := grantFullControl + grantRead + grantReadACP + granWrite + grantWriteACP
Grants(r) ==
    Get(r, GrantNames[1]) \o Get(r, GrantNames[2]) \o Get(r, GrantNames[3])
        \o Get(r, GrantNames[4]) \o Get(r, GrantNames[5])

\* grants != "" || acl != ""
AnyACLForm(grants, acl) == grants # <<>> \/ acl # <<>>

\* A mutual-exclusion check that misses a single one-character grant.
BothACLFormsShort(grants, acl) == Len(grants) > 1 /\ acl # <<>>

\* grants != "" && acl != ""
BothACLForms(grants, acl) == grants # <<>> /\ acl # <<>>

\* A count check that rejects only negative numbers.
InvalidCountNegativeOnly(n, raw) == n < 0

\* maxParts < 0 || (maxParts == 0 && ctx.Query("max-parts") != "")
InvalidCount(n, raw) == n < 0 \/ (n = 0 /\ raw # <<>>)

\* A part-number check that is off by one.
InvalidPartNumberOffByOne(n) == n <= 1

\* partNumber < 1
InvalidPartNumber(n) == n < 1

\* uploadId != "" && partNumberStr != ""
IsPartUpload(uploadId, partNumberStr) == uploadId # <<>> /\ partNumberStr # <<>>

\* A split that keeps only the second segment of the copy source.
CopySourceSplitSecond(copySource) ==
    LET copySourceSplit == Split(copySource, "/")
    IN  [srcBucket |-> copySourceSplit[1],
         srcObject |-> IF Len(copySourceSplit) > 1 THEN copySourceSplit[2] ELSE <<>>]

\* copySourceSplit := strings.Split(copySource, "/")
\* srcBucket, srcObject := copySourceSplit[0], copySourceSplit[1:]
\* ... strings.Join(srcObject, "/")
CopySourceSplit(copySource) ==
    LET copySourceSplit == Split(copySource, "/")
    IN  [srcBucket |-> copySourceSplit[1],
         srcObject |-> Join(Tail(copySourceSplit), "/")]

\* The ACL input of PutBucketAcl / PutObjectAcl.
ACLInput(r, acl) ==
    [ACL |-> acl,
     GrantFullControl |-> Get(r, GrantNames[1]), GrantRead |-> Get(r, GrantNames[2]),
     GrantReadACP |-> Get(r, GrantNames[3]), GrantWrite |-> Get(r, GrantNames[4]),
     GrantWriteACP |-> Get(r, GrantNames[5])]

\* utils.SetMetaHeaders and utils.SetResponseHeaders of a GetObject / HeadObject
\* result: the user metadata, then the five standard headers.
SetObjectHeaders(c, res) ==
    LET lastmod == res.LastModified
        c0 == SetHeader(c, "X-Amz-Meta-m", <<"v">>)
        c1 == SetHeader(c0, "Content-Length", Sprint(res.ContentLength))
        c2 == SetHeader(c1, "Content-Type", res.ContentType)
        c3 == SetHeader(c2, "Content-Encoding", res.ContentEncoding)
        c4 == SetHeader(c3, "ETag", res.ETag)
    IN  SetHeader(c4, "Last-Modified", lastmod)

-----------------------------------------------------------------------------
(* The state machine *)

Init ==
    /\ pc = "idle"
    /\ req = Request("none", BucketParams, <<"/">>, NoQuery, NoHeaders, "")
    /\ calls = <<>>
    /\ resp = [status |-> NewCtx.status, body |-> NewCtx.body, hdr |-> NewCtx.hdr]
    /\ events = <<>>
    /\ ret = "nil"
    /\ stderr = FALSE

\* The handler was given request r and left the context c.
Respond(r, c) ==
    /\ pc' = "done"
    /\ req' = r
    /\ calls' = c.calls
    /\ resp' = [status |-> c.status, body |-> c.body, hdr |-> c.hdr]
    /\ events' = c.events
    /\ ret' = c.ret
    /\ stderr' = c.stderr

\* The server is done with the request; the next one gets a fresh context and
\* the controller, which holds only the backend, keeps nothing of the last one.
New ==
    /\ pc = "done"
    /\ pc' = "idle"
    /\ req' = Request("none", BucketParams, <<"/">>, NoQuery, NoHeaders, "")
    /\ calls' = <<>>
    /\ resp' = [status |-> NewCtx.status, body |-> NewCtx.body, hdr |-> NewCtx.hdr]
    /\ events' = <<>>
    /\ ret' = "nil"
    /\ stderr' = FALSE

ListBuckets ==
    /\ pc = "idle"
    /\ \E be \in BackendResults :
        LET r == Request("ListBuckets", BucketParams, <<"/">>, NoQuery, NoHeaders, "")
        IN  Respond(r, SendXMLResponse(Invoke(NewCtx, "ListBuckets", <<>>, be),
                                       be.res, be.err))

GetActions ==
    /\ pc = "idle"
    /\ \E p \in ObjectParams, slash \in BOOLEAN, uid \in IdArgs, mp \in NumArgs,
       pm \in NumArgs, aclq \in {NoArg, Arg(<<>>), Arg(<<"x">>)},
       attrs \in {<<>>, <<"a">>, <<"a", ",", "b">>}, be \in BackendResults :
        LET r == Request("GetActions", p, ObjectPath(p, slash),
                         "uploadId" :> uid @@ "max-parts" :> mp
                             @@ "part-number-marker" :> pm @@ "acl" :> aclq,
                         "X-Amz-Object-Attributes" :> attrs, "")
            bucket == Params(r, "bucket")
            key == ObjectKey(r)
            uploadId == Query(r, "uploadId")
            maxParts == QueryInt(r, "max-parts", 0)
            partNumberMarker == QueryInt(r, "part-number-marker", 0)
            acceptRange == Get(r, "Range")
            res == IF be.res = "nil" THEN "nil" ELSE "value"
            got == InvokeGetObject(NewCtx,
                       [bucket |-> bucket, key |-> key, range |-> acceptRange], be)
        IN  Respond(r,
              IF uploadId # <<>> THEN
                  IF InvalidCount(maxParts, Query(r, "max-parts")) THEN
                      SendResponse(NewCtx, GetAPIError("InvalidMaxParts"))
                  ELSE IF InvalidCount(partNumberMarker, Query(r, "part-number-marker")) THEN
                      SendResponse(NewCtx, GetAPIError("InvalidPartNumberMarker"))
                  ELSE SendXMLResponse(
                           Invoke(NewCtx, "ListObjectParts",
                                  [bucket |-> bucket, key |-> key, uploadId |-> uploadId,
                                   partNumberMarker |-> partNumberMarker,
                                   maxParts |-> maxParts], be),
                           be.res, be.err)
              ELSE IF Has(r, "acl") THEN
                  SendXMLResponse(
                      Invoke(NewCtx, "GetObjectAcl", [bucket |-> bucket, key |-> key], be),
                      be.res, be.err)
              ELSE IF Get(r, "X-Amz-Object-Attributes") # <<>> THEN
                  SendXMLResponse(
                      Invoke(NewCtx, "GetObjectAttributes",
                             [bucket |-> bucket, key |-> key,
                              attributes |-> Split(Get(r, "X-Amz-Object-Attributes"), ",")],
                             be),
                      be.res, be.err)
              ELSE IF be.err.kind # "nil" THEN SendResponse(got, be.err)
              ELSE IF res = "nil" THEN SendResponse(got, OtherErr)
              ELSE SendStatus(SetObjectHeaders(got, ObjectResult), 200))

ListActions ==
    /\ pc = "idle"
    /\ \E aclq \in FlagArgs, uploads \in FlagArgs, lt \in NumArgs,
          mk \in {NoArg, Arg(<<"1">>)}, be \in BackendResults :
        LET r == Request("ListActions", BucketParams, <<"/">> \o Bucket,
                         "acl" :> aclq @@ "uploads" :> uploads @@ "list-type" :> lt
                             @@ "max-keys" :> mk,
                         NoHeaders, "")
            bucket == Params(r, "bucket")
            maxkeys == QueryInt(r, "max-keys", 0)
            listing == [bucket |-> bucket, prefix |-> <<>>, marker |-> <<>>,
                        delimiter |-> <<>>, maxkeys |-> maxkeys]
        IN  Respond(r,
              IF Has(r, "acl") THEN
                  SendXMLResponse(Invoke(NewCtx, "GetBucketAcl", [bucket |-> bucket], be),
                                  be.res, be.err)
              ELSE IF Has(r, "uploads") THEN
                  SendXMLResponse(
                      Invoke(NewCtx, "ListMultipartUploads", [bucket |-> bucket], be),
                      be.res, be.err)
              ELSE IF QueryInt(r, "list-type", 0) = 2 THEN
                  SendXMLResponse(Invoke(NewCtx, "ListObjectsV2", listing, be),
                                  be.res, be.err)
              ELSE SendXMLResponse(Invoke(NewCtx, "ListObjects", listing, be),
                                   be.res, be.err))

PutBucketActions ==
    /\ pc = "idle"
    /\ \E aclh \in {<<>>, <<"p">>}, g \in GrantHeaders, be \in BackendResults :
        LET r == Request("PutBucketActions", BucketParams, <<"/">> \o Bucket, NoQuery,
                         "X-Amz-Acl" :> aclh @@ GrantsOf(g), "")
            bucket == Params(r, "bucket")
            acl == Get(r, "X-Amz-Acl")
            owner == r.access
            grants == Grants(r)
        IN  Respond(r,
              IF AnyACLForm(grants, acl) THEN
                  IF BothACLForms(grants, acl) THEN ReturnError(NewCtx, "wrong api call")
                  ELSE SendResponse(
                           Invoke(NewCtx, "PutBucketAcl",
                                  [bucket |-> bucket, owner |-> owner] @@ ACLInput(r, acl),
                                  be),
                           be.err)
              ELSE SendResponse(
                       Invoke(NewCtx, "PutBucket", [bucket |-> bucket, owner |-> owner], be),
                       be.err))

PutActions ==
    /\ pc = "idle"
    /\ \E p \in ObjectParams, slash \in BOOLEAN, uid \in IdArgs, pn \in NumArgs,
          cl \in ContentLengths, aclh \in {<<>>, <<"p">>}, g \in GrantHeaders,
          src \in CopySources, be \in BackendResults :
        LET r == Request("PutActions", p, ObjectPath(p, slash),
                         "uploadId" :> uid @@ "partNumber" :> pn,
                         "X-Amz-Acl" :> aclh @@ "X-Amz-Copy-Source" :> src
                             @@ "Content-Length" :> cl @@ GrantsOf(g),
                         "payload")
            bucket == Params(r, "bucket")
            uploadId == Query(r, "uploadId")
            partNumberStr == Query(r, "partNumber")
            copySource == Get(r, "X-Amz-Copy-Source")
            acl == Get(r, "X-Amz-Acl")
            contentLengthStr == Get(r, "Content-Length")
            grants == Grants(r)
            keyStart == TrailingSlash(Path(r), ObjectKey(r))
            parsed == Atoi(contentLengthStr)
            contentLength == IF contentLengthStr # <<>> THEN parsed.val ELSE 0
            partNumber == QueryInt(r, "partNumber", -1)
            part == Invoke(NewCtx, "PutObjectPart",
                           [bucket |-> bucket, key |-> keyStart, uploadId |-> uploadId,
                            partNumber |-> partNumber, contentLength |-> contentLength,
                            body |-> r.body], be)
            split == CopySourceSplit(copySource)
            put == Invoke(NewCtx, "PutObject",
                          [bucket |-> bucket, key |-> keyStart,
                           contentLength |-> contentLength, metadata |-> {},
                           body |-> r.body], be)
        IN  Respond(r,
              IF contentLengthStr # <<>> /\ ~parsed.ok THEN
                  SendResponse(NewCtx, GetAPIError("InvalidRequest"))
              ELSE IF IsPartUpload(uploadId, partNumberStr) THEN
                  IF InvalidPartNumber(partNumber) THEN
                      SendResponse(NewCtx, GetAPIError("InvalidPart"))
                  ELSE SendResponse(SetHeader(part, "Etag", be.etag), be.err)
              ELSE IF AnyACLForm(grants, acl) THEN
                  IF BothACLForms(grants, acl) THEN ReturnError(NewCtx, "wrong api call")
                  ELSE SendResponse(
                           Invoke(NewCtx, "PutObjectAcl",
                                  [bucket |-> bucket, key |-> keyStart] @@ ACLInput(r, acl),
                                  be),
                           be.err)
              ELSE IF copySource # <<>> THEN
                  SendXMLResponse(
                      Invoke(NewCtx, "CopyObject",
                             [srcBucket |-> split.srcBucket, srcObject |-> split.srcObject,
                              bucket |-> bucket, key |-> keyStart], be),
                      be.res, be.err)
              ELSE SendResponse(SetHeader(put, "Etag", be.etag), be.err))

DeleteBucket ==
    /\ pc = "idle"
    /\ \E be \in BackendResults :
        LET r == Request("DeleteBucket", BucketParams, <<"/">> \o Bucket, NoQuery,
                         NoHeaders, "")
        IN  Respond(r, SendResponse(
                           Invoke(NewCtx, "DeleteBucket",
                                  [bucket |-> Params(r, "bucket")], be),
                           be.err))

DeleteObjects ==
    /\ pc = "idle"
    /\ \E body \in Bodies, be \in BackendResults :
        LET r == Request("DeleteObjects", BucketParams, <<"/">> \o Bucket, NoQuery,
                         NoHeaders, body)
        IN  Respond(r,
              IF XMLUnmarshalFails(r.body) THEN ReturnError(NewCtx, "wrong api call")
              ELSE SendResponse(
                       Invoke(NewCtx, "DeleteObjects",
                              [bucket |-> Params(r, "bucket"), delete |-> r.body], be),
                       be.err))

DeleteActions ==
    /\ pc = "idle"
    /\ \E p \in ObjectParams, slash \in BOOLEAN, uid \in IdArgs, be \in BackendResults :
        LET r == Request("DeleteActions", p, ObjectPath(p, slash),
                         "uploadId" :> uid, NoHeaders, "")
            bucket == Params(r, "bucket")
            key == ObjectKey(r)
            uploadId == Query(r, "uploadId")
        IN  Respond(r,
              IF uploadId # <<>> THEN
                  SendResponse(
                      Invoke(NewCtx, "AbortMultipartUpload",
                             [bucket |-> bucket, key |-> key, uploadId |-> uploadId], be),
                      be.err)
              ELSE SendResponse(
                       Invoke(NewCtx, "DeleteObject", [bucket |-> bucket, key |-> key], be),
                       be.err))

HeadBucket ==
    /\ pc = "idle"
    /\ \E be \in BackendResults :
        LET r == Request("HeadBucket", BucketParams, <<"/">> \o Bucket, NoQuery,
                         NoHeaders, "")
        IN  Respond(r, SendResponse(
                           Invoke(NewCtx, "HeadBucket",
                                  [bucket |-> Params(r, "bucket")], be),
                           be.err))

HeadObject ==
    /\ pc = "idle"
    /\ \E p \in ObjectParams, slash \in BOOLEAN, be \in BackendResults :
        LET r == Request("HeadObject", p, ObjectPath(p, slash), NoQuery, NoHeaders, "")
            bucket == Params(r, "bucket")
            key == ObjectKey(r)
            head == Invoke(NewCtx, "HeadObject", [bucket |-> bucket, key |-> key], be)
        IN  Respond(r,
              IF be.err.kind # "nil" THEN SendResponse(head, be.err)
              ELSE IF be.res = "nil" THEN SendResponse(head, OtherErr)
              ELSE SendResponse(SetObjectHeaders(head, ObjectResult), NilErr))

CreateActions ==
    /\ pc = "idle"
    /\ \E p \in ObjectParams, slash \in BOOLEAN, uid \in IdArgs, restore \in FlagArgs,
          body \in Bodies, be \in BackendResults :
        LET r == Request("CreateActions", p, ObjectPath(p, slash),
                         "uploadId" :> uid @@ "restore" :> restore, NoHeaders, body)
            bucket == Params(r, "bucket")
            key == ObjectKey(r)
            uploadId == Query(r, "uploadId")
        IN  Respond(r,
              IF Has(r, "restore") THEN
                  IF XMLUnmarshalFails(r.body) THEN ReturnError(NewCtx, "wrong api call")
                  ELSE SendResponse(
                           Invoke(NewCtx, "RestoreObject",
                                  [bucket |-> bucket, key |-> key, restore |-> r.body], be),
                           be.err)
              ELSE IF uploadId # <<>> THEN
                  IF XMLUnmarshalFails(r.body) THEN ReturnError(NewCtx, "wrong api call")
                  ELSE SendXMLResponse(
                           Invoke(NewCtx, "CompleteMultipartUpload",
                                  [bucket |-> bucket, key |-> key, uploadId |-> uploadId,
                                   parts |-> r.body], be),
                           be.res, be.err)
              ELSE SendXMLResponse(
                       Invoke(NewCtx, "CreateMultipartUpload",
                              [bucket |-> bucket, key |-> key], be),
                       be.res, be.err))

Next ==
    \/ New
    \/ ListBuckets
    \/ GetActions
    \/ ListActions
    \/ PutBucketActions
    \/ PutActions
    \/ DeleteBucket
    \/ DeleteObjects
    \/ DeleteActions
    \/ HeadBucket
    \/ HeadObject
    \/ CreateActions

Spec == Init /\ [][Next]_vars

-----------------------------------------------------------------------------
(* Vocabulary of the properties: the request as the client sent it, and the  *)
(* outcome as the client and the backend saw it.                             *)

Done == pc = "done"
Handled(h) == Done /\ req.handler = h

Present(k) == req.query[k].has
Value(k) == req.query[k].val
Header(n) == req.hdr[n]

\* The names of the backend operations invoked, in order.
Ops == [i \in 1..Len(calls) |-> calls[i].op]

CannedACL == Header("X-Amz-Acl") # <<>>
GrantsPresent == \E i \in 1..5 : Header(GrantNames[i]) # <<>>

\* s parses as an integer / as a positive integer
IsInt(s) == Atoi(s).ok
IsPositive(s) == Atoi(s).ok /\ Atoi(s).val > 0

ContentLengthOK == Header("Content-Length") = <<>> \/ IsInt(Header("Content-Length"))

\* The response is the error document of the catalog entry code, with its status.
CatalogError(code) ==
    /\ ret = "nil"
    /\ resp.status = HTTPStatusCode(code)
    /\ resp.body = [kind |-> "error", of |-> code]

\* The request was refused by the dispatcher: the handler returned its own
\* error, or answered with the catalog error of one of its own checks.
ProtocolError ==
    \/ ret = "wrong api call"
    \/ /\ ret = "nil"
       /\ resp.body.kind = "error"
       /\ resp.body.of \in {"InvalidRequest", "InvalidPart"}

\* The key of the request: the route parameter, the wildcard tail after a "/".
RequestKey ==
    IF req.params.tail = <<>> THEN req.params.key
    ELSE req.params.key \o <<"/">> \o req.params.tail

\* The same, with the trailing slash of the path.
RequestKeySlash ==
    IF Last(req.path) = "/" /\ Last(RequestKey) # "/"
    THEN RequestKey \o <<"/">> ELSE RequestKey

\* The position of the first "/" of s, 0 when there is none.
FirstSlash(s) ==
    IF \E i \in 1..Len(s) : s[i] = "/"
    THEN CHOOSE i \in 1..Len(s) : s[i] = "/" /\ \A j \in 1..(i - 1) : s[j] # "/"
    ELSE 0

BeforeFirstSlash(s) == IF FirstSlash(s) = 0 THEN s ELSE SubSeq(s, 1, FirstSlash(s) - 1)
AfterFirstSlash(s) == IF FirstSlash(s) = 0 THEN <<>> ELSE SubSeq(s, FirstSlash(s) + 1, Len(s))

\* A PUT of a part that passes the checks of the dispatcher.
AcceptedPartUpload ==
    /\ Value("uploadId") # <<>>
    /\ IsInt(Value("partNumber"))
    /\ Atoi(Value("partNumber")).val >= 1
    /\ ContentLengthOK

-----------------------------------------------------------------------------
(* C1 *)

BothACLRequest ==
    /\ Done
    /\ req.handler \in {"PutBucketActions", "PutActions"}
    /\ CannedACL
    /\ GrantsPresent

\* C1, as claimed: a PUT on a bucket or an object that carries both a canned ACL
\* and a grant header ends in a protocol error and invokes no backend
\* operation, whatever its other query arguments and headers are.
C1_BothACLFormsRefused ==
    BothACLRequest => (calls = <<>> /\ ProtocolError)

\* C1, amended: a PUT that carries both a canned ACL and a grant header ends in
\* a protocol error and invokes no backend operation, unless it is an object
\* PUT of a part (uploadId and partNumber >= 1 in the query, Content-Length
\* empty or an integer): the part rule comes first and PutObjectPart is invoked.
C1_BothACLFormsRefusedUnlessPart ==
    BothACLRequest =>
        IF req.handler = "PutActions" /\ AcceptedPartUpload
        THEN Ops = <<"PutObjectPart">>
        ELSE calls = <<>> /\ ProtocolError

\* C1, reached: an object PUT with both ACL forms and a copy source is refused.
C1_Witness ==
    /\ BothACLRequest
    /\ req.handler = "PutActions"
    /\ Header("X-Amz-Copy-Source") # <<>>
    /\ ~Present("uploadId")
    /\ ret = "wrong api call"
    /\ calls = <<>>

-----------------------------------------------------------------------------
(* C2 *)

PutObjectPartInvoked(uploadId, partNumber) ==
    /\ Len(calls) = 1
    /\ calls[1].op = "PutObjectPart"
    /\ calls[1].args =
          [bucket |-> req.params.bucket, key |-> RequestKeySlash,
           uploadId |-> uploadId, partNumber |-> partNumber,
           contentLength |-> Atoi(Header("Content-Length")).val, body |-> req.body]
    /\ \A h \in resp.hdr : h[1] = "Etag" => h[2] = calls[1].result.etag
    /\ \E h \in resp.hdr : h[1] = "Etag"

\* C2, as claimed: an object PUT whose query has uploadId and partNumber, with
\* partNumber >= 1, invokes PutObjectPart(bucket, key, uploadId, partNumber,
\* contentLength, body) and nothing else, and the ETag header of the response
\* is the etag the backend returned, whatever the other headers are.
C2_PartUploadInvokesPutObjectPart ==
    ( /\ Handled("PutActions")
      /\ Present("uploadId")
      /\ Present("partNumber")
      /\ IsInt(Value("partNumber"))
      /\ Atoi(Value("partNumber")).val >= 1 )
    => PutObjectPartInvoked(Value("uploadId"), Atoi(Value("partNumber")).val)

\* C2, amended: the same, for a non-empty uploadId and a Content-Length header
\* that is empty or parses as an integer; the ACL, grant and copy-source
\* headers do not matter.
C2_AcceptedPartUploadInvokesPutObjectPart ==
    (Handled("PutActions") /\ AcceptedPartUpload)
    => PutObjectPartInvoked(Value("uploadId"), Atoi(Value("partNumber")).val)

\* C2, reached: a part is uploaded by a request that also carries both ACL
\* forms, a copy source and a Content-Length.
C2_Witness ==
    /\ Handled("PutActions")
    /\ AcceptedPartUpload
    /\ CannedACL
    /\ GrantsPresent
    /\ Header("X-Amz-Copy-Source") # <<>>
    /\ Header("Content-Length") # <<>>
    /\ Ops = <<"PutObjectPart">>
    /\ <<"Etag", <<"e">>>> \in resp.hdr

-----------------------------------------------------------------------------
(* C3 *)

\* C3, as claimed: when an error that is not a catalog error reaches
\* SendResponse or SendXMLResponse (the writer logs it to stderr), the response
\* has status 500 and the InternalError document as its body.
C3_InternalErrorIs500 ==
    (Done /\ stderr) =>
        /\ resp.status = 500
        /\ resp.body = [kind |-> "error", of |-> "InternalError"]

-----------------------------------------------------------------------------
(* C4 *)

\* The malformed requests the dispatcher catches itself.
Malformed ==
    \/ /\ req.handler = "PutActions"
       /\ ContentLengthOK
       /\ Value("uploadId") # <<>> /\ Value("partNumber") # <<>>
       /\ ~(IsInt(Value("partNumber")) /\ Atoi(Value("partNumber")).val >= 1)
    \/ req.handler = "DeleteObjects" /\ req.body # "<doc/>"
    \/ /\ req.handler = "CreateActions"
       /\ Present("restore") \/ Value("uploadId") # <<>>
       /\ req.body # "<doc/>"
    \/ req.handler = "PutBucketActions" /\ CannedACL /\ GrantsPresent
    \/ /\ req.handler = "PutActions"
       /\ ContentLengthOK
       /\ ~(Value("uploadId") # <<>> /\ Value("partNumber") # <<>>)
       /\ CannedACL /\ GrantsPresent

\* C4, as claimed: a malformed request caught by the dispatcher is answered
\* through the response writers with a catalog error of the 4xx range, never
\* with an error that is not of the catalog.
C4_MalformedIsCatalog4xx ==
    (Done /\ Malformed) =>
        /\ ret = "nil"
        /\ resp.body.kind = "error"
        /\ resp.status \in 400..499
        /\ "body" \in {events[i] : i \in 1..Len(events)}

-----------------------------------------------------------------------------
(* C5 *)

BackendCatalogError ==
    /\ Done
    /\ calls # <<>>
    /\ calls[1].result.err.kind = "api"

\* C5, as claimed: when the backend operation returns a catalog error, the
\* status of the response is the HTTPStatusCode of that error, the body is its
\* error document, and no success header or body is produced.
C5_CatalogErrorPassesThrough ==
    BackendCatalogError =>
        /\ CatalogError(calls[1].result.err.code)
        /\ resp.hdr = {}

\* C5, amended: the status and the body are those of the error; the one header
\* of the success path the response can still carry is Etag, which PutActions
\* sets to the etag the backend returned before it looks at the error.
C5_CatalogErrorPassesThroughButEtag ==
    BackendCatalogError =>
        /\ CatalogError(calls[1].result.err.code)
        /\ resp.hdr = IF calls[1].op \in {"PutObjectPart", "PutObject"}
                      THEN {<<"Etag", calls[1].result.etag>>}
                      ELSE {}

\* C5, reached: GetObject wrote payload and failed with AccessDenied; the
\* response is the 403 error document.
C5_Witness ==
    /\ BackendCatalogError
    /\ calls[1].op = "GetObject"
    /\ calls[1].result.wrote
    /\ resp.status = 403
    /\ resp.body = [kind |-> "error", of |-> "AccessDenied"]

-----------------------------------------------------------------------------
(* C6 *)

\* C6, as claimed: an object GET picks its operation by the first rule that
\* matches: uploadId in the query, ListObjectParts; else acl in the query, even
\* with an empty value, GetObjectAcl; else the X-Amz-Object-Attributes header,
\* GetObjectAttributes with the header split on ","; else GetObject. Exactly
\* that operation is invoked.
C6_GetLadder ==
    Handled("GetActions") =>
        /\ Ops = << IF Present("uploadId") THEN "ListObjectParts"
                    ELSE IF Present("acl") THEN "GetObjectAcl"
                    ELSE IF Header("X-Amz-Object-Attributes") # <<>>
                         THEN "GetObjectAttributes"
                    ELSE "GetObject" >>
        /\ Ops = <<"GetObjectAttributes">> =>
               calls[1].args.attributes = Split(Header("X-Amz-Object-Attributes"), ",")

\* max-parts and part-number-marker pass the check of the ListObjectParts rule.
CountOK(k) == Value(k) = <<>> \/ IsPositive(Value(k))

\* C6, amended: the first rule is taken by a non-empty uploadId (an empty one is
\* as good as none), and it invokes ListObjectParts only when max-parts and
\* part-number-marker pass their check; otherwise it invokes nothing and no
\* lower rule applies. The other rules are as claimed.
C6_GetLadderNonEmptyUploadId ==
    Handled("GetActions") =>
        /\ Ops = IF Value("uploadId") # <<>>
                 THEN IF CountOK("max-parts") /\ CountOK("part-number-marker")
                      THEN <<"ListObjectParts">> ELSE <<>>
                 ELSE IF Present("acl") THEN <<"GetObjectAcl">>
                 ELSE IF Header("X-Amz-Object-Attributes") # <<>>
                      THEN <<"GetObjectAttributes">>
                 ELSE <<"GetObject">>
        /\ Ops = <<"GetObjectAttributes">> =>
               calls[1].args.attributes = Split(Header("X-Amz-Object-Attributes"), ",")

\* C6, reached: ?acl with an empty value wins over the attributes header.
C6_Witness ==
    /\ Handled("GetActions")
    /\ ~Present("uploadId")
    /\ Present("acl") /\ Value("acl") = <<>>
    /\ Header("X-Amz-Object-Attributes") # <<>>
    /\ Ops = <<"GetObjectAcl">>

-----------------------------------------------------------------------------
(* C7 *)

ListObjectPartsRequest == Handled("GetActions") /\ Value("uploadId") # <<>>

\* C7, as claimed: on an object GET with uploadId, a max-parts that is present
\* and not a positive integer gives 400 InvalidMaxParts without a call of
\* ListObjectParts; a part-number-marker that is present and not a positive
\* integer gives 400 InvalidPartNumberMarker without a call; a missing
\* argument is passed to ListObjectParts as 0.
C7_CountsValidated ==
    ListObjectPartsRequest =>
        /\ (Present("max-parts") /\ ~IsPositive(Value("max-parts")))
               => (CatalogError("InvalidMaxParts") /\ resp.status = 400 /\ calls = <<>>)
        /\ (Present("part-number-marker") /\ ~IsPositive(Value("part-number-marker")))
               => (CatalogError("InvalidPartNumberMarker") /\ resp.status = 400
                   /\ calls = <<>>)
        /\ (calls # <<>> /\ ~Present("max-parts")) => calls[1].args.maxParts = 0
        /\ (calls # <<>> /\ ~Present("part-number-marker"))
               => calls[1].args.partNumberMarker = 0

\* C7, amended: max-parts is checked first, and only a non-empty value is
\* checked. A non-empty max-parts that is not a positive integer gives 400
\* InvalidMaxParts; otherwise a non-empty part-number-marker that is not a
\* positive integer gives 400 InvalidPartNumberMarker; in both cases
\* ListObjectParts is not called. Otherwise ListObjectParts is called, and an
\* argument that is missing or empty is passed as 0.
C7_CountsValidatedInOrder ==
    ListObjectPartsRequest =>
        IF ~CountOK("max-parts")
        THEN CatalogError("InvalidMaxParts") /\ resp.status = 400 /\ calls = <<>>
        ELSE IF ~CountOK("part-number-marker")
        THEN CatalogError("InvalidPartNumberMarker") /\ resp.status = 400 /\ calls = <<>>
        ELSE /\ Ops = <<"ListObjectParts">>
             /\ calls[1].args.maxParts = Atoi(Value("max-parts")).val
             /\ calls[1].args.partNumberMarker = Atoi(Value("part-number-marker")).val

\* C7, reached: max-parts=0 is refused without a call of ListObjectParts.
C7_Witness ==
    /\ ListObjectPartsRequest
    /\ Value("max-parts") = <<"0">>
    /\ ~Present("part-number-marker")
    /\ resp.status = 400
    /\ resp.body = [kind |-> "error", of |-> "InvalidMaxParts"]
    /\ calls = <<>>

-----------------------------------------------------------------------------
(* C8 *)

ObjectHandlers ==
    {"PutActions", "GetActions", "HeadObject", "DeleteActions", "CreateActions"}

\* C8, as claimed: in every object handler, when the path of the request ends
\* with "/", the key passed to the backend operation ends with "/".
C8_TrailingSlashKept ==
    (Done /\ req.handler \in ObjectHandlers /\ Last(req.path) = "/" /\ calls # <<>>)
    => Last(calls[1].args.key) = "/"

-----------------------------------------------------------------------------
(* C9 *)

CopyObjectInvoked ==
    /\ Ops = <<"CopyObject">>
    /\ calls[1].args =
          [srcBucket |-> BeforeFirstSlash(Header("X-Amz-Copy-Source")),
           srcObject |-> AfterFirstSlash(Header("X-Amz-Copy-Source")),
           bucket |-> req.params.bucket, key |-> RequestKeySlash]

PutObjectInvoked ==
    /\ Ops = <<"PutObject">>
    /\ calls[1].args =
          [bucket |-> req.params.bucket, key |-> RequestKeySlash,
           contentLength |-> Atoi(Header("Content-Length")).val,
           metadata |-> {}, body |-> req.body]

\* C9, as claimed: an object PUT without the uploadId and partNumber pair
\* invokes PutObjectAcl when exactly one of the canned ACL and the grant
\* headers is present, copy source or not; otherwise CopyObject, with the copy
\* source cut at its first "/", when X-Amz-Copy-Source is present; otherwise
\* PutObject with the bucket, key, content length, metadata and body.
C9_PutLadder ==
    (Handled("PutActions") /\ ~(Present("uploadId") /\ Present("partNumber"))) =>
        IF CannedACL # GrantsPresent THEN Ops = <<"PutObjectAcl">>
        ELSE IF Header("X-Amz-Copy-Source") # <<>> THEN CopyObjectInvoked
        ELSE PutObjectInvoked

\* C9, amended: the same for a request whose Content-Length is empty or an
\* integer (another value is answered 400 InvalidRequest with no backend call)
\* and whose uploadId and partNumber are not both non-empty; CopyObject and
\* PutObject are reached only when neither a canned ACL nor a grant header is
\* present, and a request with both invokes nothing.
C9_PutLadderAfterChecks ==
    (Handled("PutActions") /\ ~(Value("uploadId") # <<>> /\ Value("partNumber") # <<>>)) =>
        IF ~ContentLengthOK THEN CatalogError("InvalidRequest") /\ calls = <<>>
        ELSE IF CannedACL /\ GrantsPresent THEN calls = <<>>
        ELSE IF CannedACL \/ GrantsPresent
             THEN Ops = <<"PutObjectAcl">> /\ calls[1].args.key = RequestKeySlash
        ELSE IF Header("X-Amz-Copy-Source") # <<>> THEN CopyObjectInvoked
        ELSE PutObjectInvoked

\* C9, reached: the copy source s// is cut into bucket s and key /.
C9_Witness ==
    /\ Handled("PutActions")
    /\ Header("X-Amz-Copy-Source") = <<"s", "/", "/">>
    /\ Ops = <<"CopyObject">>
    /\ calls[1].args.srcBucket = <<"s">>
    /\ calls[1].args.srcObject = <<"/">>

-----------------------------------------------------------------------------
(* C10 *)

Positions(kinds) == {i \in 1..Len(events) : events[i] \in kinds}

\* C10, as claimed: a handler invokes at most one backend operation for a
\* request, and the operation has returned before any status or body of the
\* response is set.
C10_OneCallBeforeResponse ==
    Done =>
        /\ Len(calls) <= 1
        /\ \A i \in Positions({"status", "body", "backend-write"}) :
               \A j \in Positions({"call", "return"}) : j < i

\* C10, amended: a handler invokes at most one backend operation, and the
\* operation has returned before the handler or its response writer sets a
\* status, a header or the body; the only thing written to the response
\* earlier is the payload that GetObject itself streams into the body writer
\* while it runs.
C10_OneCallBeforeWriter ==
    Done =>
        /\ Len(calls) <= 1
        /\ \A i \in Positions({"status", "body", "header"}) :
               \A j \in Positions({"call", "return"}) : j < i
        /\ \A i \in Positions({"backend-write"}) :
               /\ Ops = <<"GetObject">>
               /\ i > 1 /\ events[i - 1] = "call"
               /\ i < Len(events) /\ events[i + 1] = "return"

\* C10, reached: a successful GetObject that streamed its payload.
C10_Witness ==
    /\ Handled("GetActions")
    /\ Ops = <<"GetObject">>
    /\ calls[1].result.err.kind = "nil"
    /\ events = <<"call", "backend-write", "return", "header", "header", "header",
                  "header", "header", "header", "status">>
    /\ resp.status = 200

=============================================================================
